---- MODULE Spec2Model ----
(***************************************************************************)
(* Model of haidomo: the binary run-file codec (src/src/splits_file.rs)    *)
(* and the stopwatch (src/src/stopwatch.rs).                               *)
(*                                                                         *)
(* Data representation                                                     *)
(*   String   a sequence of bytes (its UTF-8 encoding); len() is Len.      *)
(*   u64/f64  a "word": the 8 bytes of the value's bit pattern, most       *)
(*            significant byte first (the way a hex literal is written).   *)
(*            to_le_bytes / from_le_bytes reverse it.                      *)
(*   u32      a word of 4 bytes.                                           *)
(*   Duration [secs |-> u64 word, nanos |-> 0..999999999].                 *)
(***************************************************************************)
EXTENDS Integers, Sequences, FiniteSets, TLC

VARIABLES
  run,         \* the RunData object
  last,        \* the last RunData operation: its name, input and result
  now,         \* the monotonic clock (Instant::now())
  start_time,  \* Stopwatch.start_time: None or Some(instant)
  elapsed,     \* Stopwatch.elapsed
  sw_op,       \* the last Stopwatch call
  sw_prev,     \* the Stopwatch call before it
  sw_ret,      \* what the last Stopwatch call returned
  split,       \* a StopSplit: split_start, elapsed, completed
  sp_op,       \* the last StopSplit call ("panic" once a call panicked)
  sp_calls,    \* the number of StopSplit calls so far, modulo 2
  sp_ret,      \* what the last StopSplit call returned
  app_splits,  \* HaiDomoApp.splits: the (index, StopSplit) pairs
  app_at,      \* HaiDomoApp.at
  key          \* the last event HaiDomoApp::update handled ("panic" once it panicked)

vars == <<run, last, now, start_time, elapsed, sw_op, sw_prev, sw_ret,
          split, sp_op, sp_calls, sp_ret, app_splits, app_at, key>>

codecVars == <<run, last>>
swVars == <<now, start_time, elapsed, sw_op, sw_prev, sw_ret>>
splitVars == <<split, sp_op, sp_calls, sp_ret>>
appVars == <<app_splits, app_at, key>>

----------------------------------------------------------------------------
(* Program constants *)

U8MAX == 255
VERSION == 0
SIGNATURE == <<98, 115, 115, 69>>

(* Bounds of the exploration *)

MaxSplits == 2
MaxAttempts == 2
MaxTimes == 2
MaxCut == 32
MaxNow == 6
MaxName == 6
MaxAppSplits == 3
MaxAt == 5

----------------------------------------------------------------------------
(* Generic helpers *)

Min(a, b) == IF a < b THEN a ELSE b

Rep(n, x) == [i \in 1..n |-> x]

Reverse(s) == [i \in 1..Len(s) |-> s[Len(s) + 1 - i]]

(* concatenation of ss[lo..hi], by halving so that long lists stay shallow *)
RECURSIVE FlattenRange(_, _, _)
FlattenRange(ss, lo, hi) ==
  IF lo > hi THEN <<>>
  ELSE IF lo = hi THEN ss[lo]
  ELSE LET mid == (lo + hi) \div 2
       IN  FlattenRange(ss, lo, mid) \o FlattenRange(ss, mid + 1, hi)

Flatten(ss) == FlattenRange(ss, 1, Len(ss))

(* n written as a word of w bytes, most significant first (n mod 256^w) *)
RECURSIVE WordOf(_, _)
WordOf(n, w) == IF w = 0 THEN <<>> ELSE Append(WordOf(n \div 256, w - 1), n % 256)

----------------------------------------------------------------------------
(* Numbers *)

(* u64::to_le_bytes, u32::to_le_bytes, f64::to_le_bytes: least significant *)
(* byte first                                                              *)
to_le_bytes(word) == Reverse(word)

(* u64/u32/f64::from_le_bytes on an array of exactly the right size *)
from_le_bytes(bytes) == Reverse(bytes)

(* value of a word; only used on words known to be small *)
RECURSIVE NatOf(_)
NatOf(word) ==
  IF word = <<>> THEN 0
  ELSE NatOf(SubSeq(word, 1, Len(word) - 1)) * 256 + word[Len(word)]

(* floor(log2 k) for k >= 1 *)
RECURSIVE Log2(_)
Log2(k) == IF k < 2 THEN 0 ELSE 1 + Log2(k \div 2)

RECURSIVE Pow2(_)
Pow2(e) == IF e = 0 THEN 1 ELSE 2 * Pow2(e - 1)

(* IEEE-754 binary64 bit pattern of the whole number k, 0 <= k < 2^20 *)
F64OfNat(k) ==
  IF k = 0 THEN Rep(8, 0)
  ELSE LET e == Log2(k)
           expField == 1023 + e
           frac20 == (k - Pow2(e)) * Pow2(20 - e)
       IN  << expField \div 16,
              (expField % 16) * 16 + frac20 \div 65536,
              (frac20 \div 256) % 256,
              frac20 % 256, 0, 0, 0, 0 >>

(* word + q for a small q; ovf is set when the sum leaves the word *)
RECURSIVE WordAddSmall(_, _)
WordAddSmall(word, q) ==
  IF word = <<>> THEN [word |-> <<>>, ovf |-> q > 0]
  ELSE LET n == Len(word)
           sum == word[n] + q
           rest == WordAddSmall(SubSeq(word, 1, n - 1), sum \div 256)
       IN  [word |-> Append(rest.word, sum % 256), ovf |-> rest.ovf]

(* word + word with an incoming carry *)
RECURSIVE WordAdd(_, _, _)
WordAdd(a, b, c) ==
  IF a = <<>> THEN [word |-> <<>>, ovf |-> c > 0]
  ELSE LET n == Len(a)
           sum == a[n] + b[n] + c
           rest == WordAdd(SubSeq(a, 1, n - 1), SubSeq(b, 1, n - 1), sum \div 256)
       IN  [word |-> Append(rest.word, sum % 256), ovf |-> rest.ovf]

----------------------------------------------------------------------------
(* std::time::Duration *)

DurationZERO == [secs |-> Rep(8, 0), nanos |-> 0]

(* Duration::from_secs(k) *)
DurationFromSecs(k) == [secs |-> WordOf(k, 8), nanos |-> 0]

(* Duration::new(secs, nanos) with secs a u64 word and nanos a u32 word:   *)
(* nanos >= 10^9 carries into secs and panics when secs overflows.  The    *)
(* u32 is split in two 16 bit halves so that every intermediate value      *)
(* stays small.                                                            *)
DurationNew(secs, nanosWord) ==
  LET hi == nanosWord[1] * 256 + nanosWord[2]
      lo == nanosWord[3] * 256 + nanosWord[4]
      Ge(khi, klo) == hi > khi \/ (hi = khi /\ lo >= klo)
      q == IF Ge(61035, 10240) THEN 4
           ELSE IF Ge(45776, 24064) THEN 3
           ELSE IF Ge(30517, 37888) THEN 2
           ELSE IF Ge(15258, 51712) THEN 1 ELSE 0
      qhi == CASE q = 0 -> 0 [] q = 1 -> 15258 [] q = 2 -> 30517
               [] q = 3 -> 45776 [] q = 4 -> 61035
      qlo == CASE q = 0 -> 0 [] q = 1 -> 51712 [] q = 2 -> 37888
               [] q = 3 -> 24064 [] q = 4 -> 10240
      r == (hi - qhi) * 65536 + (lo - qlo)
      s == WordAddSmall(secs, q)
  IN  IF s.ovf THEN [panic |-> TRUE, dur |-> DurationZERO]
      ELSE [panic |-> FALSE, dur |-> [secs |-> s.word, nanos |-> r]]

(* Duration::as_secs, Duration::subsec_nanos *)
as_secs(d) == d.secs
subsec_nanos(d) == WordOf(d.nanos, 4)

(* Duration + Duration (checked: panics on overflow) *)
DurationAdd(a, b) ==
  LET n == a.nanos + b.nanos
      c == IF n >= 1000000000 THEN 1 ELSE 0
      s == WordAdd(a.secs, b.secs, c)
  IN  [panic |-> s.ovf,
       dur |-> [secs |-> s.word, nanos |-> n - c * 1000000000]]

(* Duration::as_secs_f64 for a duration of whole seconds below 2^20, the   *)
(* only durations the model hands to add_attempt                           *)
as_secs_f64(d) == F64OfNat(NatOf(SubSeq(d.secs, 6, 8)))


----------------------------------------------------------------------------
(* RunData and its codec                                                   *)

NoRun == [version |-> 0, name |-> <<>>, splits |-> <<>>, attempts |-> <<>>]

(* RunData::new *)
new(name, splits_names) ==
  [version |-> VERSION, name |-> name, splits |-> splits_names, attempts |-> <<>>]

(* len_is_u8! off by one *)
len_is_u8_fails_off(vec) == Len(vec) > U8MAX + 1

(* len_is_u8!: the condition under which the macro returns Err *)
len_is_u8_fails(vec) == Len(vec) > U8MAX

(* $x as u8 *)
as_u8(n) == n % 256

(* push_str_bytes!: the bytes of the string *)
push_str_bytes(str) == str

(* push_number_bytes! with to_be_bytes *)
push_number_bytes_be(word) == word

(* push_number_bytes! *)
push_number_bytes(word) == to_le_bytes(word)

(* char::from(b) pushed on a String: the UTF-8 encoding of U+0000..U+00FF *)
char_from(b) == IF b < 128 THEN <<b>> ELSE <<192 + (b \div 64), 128 + (b % 64)>>

(* read_str_bytes!: bytes.iter().skip(offset).take(str_len), each byte     *)
(* pushed as a char; takes fewer bytes when the buffer ends early          *)
read_str_bytes(bytes, offset, str_len) ==
  LET last_i == Min(offset + str_len, Len(bytes))
  IN  Flatten([i \in 1..(IF last_i > offset THEN last_i - offset ELSE 0) |->
                 char_from(bytes[offset + i])])

AsOk(bytes) == [ok |-> TRUE, bytes |-> bytes, msg |-> "Ok"]
AsErr(msg) == [ok |-> FALSE, bytes |-> <<>>, msg |-> msg]

(* as_bytes, the loop over the splits (lines 320-326): it returns Err at   *)
(* the first split whose name is too long, and otherwise has pushed, for   *)
(* each split in order, the length byte and the name bytes                 *)
AsBytesSplits(r, bytes) ==
  IF \E i \in 1..Len(r.splits) : len_is_u8_fails(r.splits[i])
  THEN AsErr("SplitNameTooLong")
  ELSE AsOk(bytes \o Flatten([i \in 1..Len(r.splits) |->
                                <<as_u8(Len(r.splits[i]))>> \o push_str_bytes(r.splits[i])]))

(* the loop over the attempts without the comparison with the split count *)
AsBytesAttempts_nocheck(r, bytes) ==
  LET AttemptBytes(attempt) ==
        LET seconds == as_secs(attempt.total_duration)
            nanos == subsec_nanos(attempt.total_duration)
            splits_used == Len(attempt.split_times)
        IN  push_number_bytes(seconds) \o push_number_bytes(nanos)
              \o <<as_u8(splits_used)>>
              \o Flatten([j \in 1..splits_used |->
                            push_number_bytes(attempt.split_times[j])])
  IN  AsOk(bytes \o Flatten([i \in 1..Len(r.attempts) |-> AttemptBytes(r.attempts[i])]))

(* as_bytes, the loop over the attempts (lines 332-349): it returns Err at *)
(* the first attempt with more split times than the run has splits         *)
AsBytesAttempts(r, bytes) ==
  LET splits_count == Len(r.splits)
      AttemptBytes(attempt) ==
        LET seconds == as_secs(attempt.total_duration)
            nanos == subsec_nanos(attempt.total_duration)
            splits_used == Len(attempt.split_times)
        IN  push_number_bytes(seconds) \o push_number_bytes(nanos)
              \o <<as_u8(splits_used)>>
              \o Flatten([j \in 1..splits_used |->
                            push_number_bytes(attempt.split_times[j])])
  IN  IF \E i \in 1..Len(r.attempts) : Len(r.attempts[i].split_times) > splits_count
      THEN AsErr("AttemptSplitsMismatch")
      ELSE AsOk(bytes \o Flatten([i \in 1..Len(r.attempts) |-> AttemptBytes(r.attempts[i])]))

(* RunData::as_bytes *)
as_bytes(r) ==
  LET b0 == SIGNATURE \o <<r.version>>
  IN  IF len_is_u8_fails(r.name) THEN AsErr("RunNameTooLong")
      ELSE LET b1 == b0 \o <<as_u8(Len(r.name))>> \o push_str_bytes(r.name)
           IN  IF len_is_u8_fails(r.splits) THEN AsErr("TooManySplits")
               ELSE LET s == AsBytesSplits(r, b1 \o <<as_u8(Len(r.splits))>>)
                    IN  IF ~s.ok THEN s
                        ELSE IF len_is_u8_fails(r.attempts) THEN AsErr("TooManyAttempts")
                        ELSE AsBytesAttempts(r, s.bytes \o <<as_u8(Len(r.attempts))>>)


(* Results of from_bytes: Ok(RunData), Err(ParseErr) or a panic *)
POk(r) == [tag |-> "Ok", err |-> "None", run |-> r]
PErr(e) == [tag |-> "Err", err |-> e, run |-> NoRun]
PPanic(why) == [tag |-> "Panic", err |-> why, run |-> NoRun]

(* usize a - b.  With overflow checks (debug profile) a < b panics;        *)
(* without them (release profile) the result wraps to a value above 2^63.  *)
usize_sub(a, b, checks) ==
  IF a >= b THEN [panic |-> FALSE, wrapped |-> FALSE, val |-> a - b]
  ELSE [panic |-> checks, wrapped |-> TRUE, val |-> 0]

(* comparisons of a usize_sub result with a small number *)
ULt(x, n) == ~x.wrapped /\ x.val < n
ULe(x, n) == ~x.wrapped /\ x.val <= n

(* content.iter().skip(offset).take(n).collect() *)
skip_take(content, offset, n) ==
  IF offset >= Len(content) THEN <<>>
  ELSE SubSeq(content, offset + 1, Min(offset + n, Len(content)))

Step(tag, err, offset, items) ==
  [tag |-> tag, err |-> err, offset |-> offset, items |-> items]

(* from_bytes, one iteration of the loop over the splits (lines 207-214) *)
SplitStep(content, st, checks) ==
  LET offset == st.offset
      splits == st.items
  IN
  IF offset >= Len(content)
  THEN Step("Panic", "index out of bounds", offset, splits)
  ELSE LET split_name_len == content[offset + 1]
           off1 == offset + 1
           rem == usize_sub(Len(content), off1, checks)
       IN  IF rem.panic THEN Step("Panic", "subtract with overflow", off1, splits)
           ELSE IF ULt(rem, split_name_len)
                THEN Step("Err", "InvalidSplitsChunk", off1, splits)
           ELSE Step("Go", "None", off1 + split_name_len,
                     Append(splits, read_str_bytes(content, off1, split_name_len)))

(* from_bytes, one iteration of the loop over the attempts (lines 224-262) *)
AttemptStep(content, st, checks) ==
  LET offset == st.offset
      attempts == st.items
      rem == usize_sub(Len(content), offset, checks)
  IN
  IF rem.panic THEN Step("Panic", "subtract with overflow", offset, attempts)
  ELSE IF ULt(rem, 13) THEN Step("Err", "InvalidAttemptsChunk", offset, attempts)
  ELSE
  LET sec_bytes == skip_take(content, offset, 8)
      nano_bytes == skip_take(content, offset + 8, 4)
      off12 == offset + 12
  IN
  IF Len(sec_bytes) # 8 \/ Len(nano_bytes) # 4
  THEN Step("Panic", "expect", offset, attempts)
  ELSE IF off12 >= Len(content)
  THEN Step("Panic", "index out of bounds", off12, attempts)
  ELSE
  LET seconds == from_le_bytes(sec_bytes)
      nanos == from_le_bytes(nano_bytes)
      splits_used_count == content[off12 + 1]
      off13 == off12 + 1
      rem2 == usize_sub(Len(content), off13, checks)
  IN
  IF splits_used_count = 0
  THEN Step("Go", "None", off13, attempts)
  ELSE IF rem2.panic
  THEN Step("Panic", "subtract with overflow", off13, attempts)
  ELSE IF ULt(rem2, 8 * splits_used_count)
  THEN Step("Err", "InvalidAttemptsChunk", off13, attempts)
  ELSE
  LET time_bytes == [j \in 1..splits_used_count |->
                       skip_take(content, off13 + 8 * (j - 1), 8)]
      split_times == [j \in 1..splits_used_count |-> from_le_bytes(time_bytes[j])]
      total == DurationNew(seconds, nanos)
  IN
  IF \E j \in 1..splits_used_count : Len(time_bytes[j]) # 8
  THEN Step("Panic", "expect", off13, attempts)
  ELSE IF total.panic
  THEN Step("Panic", "overflow in Duration::new", off13, attempts)
  ELSE Step("Go", "None", off13 + 8 * splits_used_count,
            Append(attempts, [total_duration |-> total.dur,
                              split_times |-> split_times]))

(* n iterations of a loop of from_bytes from the state st, stopping at the *)
(* first iteration that returns or panics (the n iterations are run as two *)
(* halves, one after the other)                                            *)
RECURSIVE Loop(_, _, _, _, _)
Loop(kind, content, st, n, checks) ==
  IF st.tag # "Go" \/ n = 0 THEN st
  ELSE IF n = 1
       THEN IF kind = "splits" THEN SplitStep(content, st, checks)
            ELSE AttemptStep(content, st, checks)
  ELSE LET half == Loop(kind, content, st, n \div 2, checks)
       IN  Loop(kind, content, half, n - (n \div 2), checks)

(* from_bytes, the loop over the splits (lines 206-215) *)
FromBytesSplits(content, offset, n, splits, checks) ==
  Loop("splits", content, Step("Go", "None", offset, splits), n, checks)

(* from_bytes, the loop over the attempts (lines 223-263) *)
FromBytesAttempts(content, offset, n, attempts, checks) ==
  Loop("attempts", content, Step("Go", "None", offset, attempts), n, checks)

(* from_bytes from the splits chunk on (lines 199-270) *)
FromBytesChunks(content, offset0, version, name, checks) ==
  LET content_len == Len(content)
      rem0 == usize_sub(content_len, offset0, checks)
  IN
  IF rem0.panic THEN PPanic("subtract with overflow")
  ELSE IF ULe(rem0, 2) THEN PErr("InvalidSplitsChunk")
  ELSE IF offset0 >= content_len THEN PPanic("index out of bounds")
  ELSE
  LET chunk_len == content[offset0 + 1]
      sp == FromBytesSplits(content, offset0 + 1, chunk_len, <<>>, checks)
  IN
  IF sp.tag = "Panic" THEN PPanic(sp.err)
  ELSE IF sp.tag = "Err" THEN PErr(sp.err)
  ELSE
  LET rem1 == usize_sub(content_len, sp.offset, checks)
  IN
  IF rem1.panic THEN PPanic("subtract with overflow")
  ELSE IF ~rem1.wrapped /\ rem1.val = 0 THEN PErr("InvalidAttemptsChunk")
  ELSE IF sp.offset >= content_len THEN PPanic("index out of bounds")
  ELSE
  LET chunk_len2 == content[sp.offset + 1]
      at == FromBytesAttempts(content, sp.offset + 1, chunk_len2, <<>>, checks)
  IN
  IF at.tag = "Panic" THEN PPanic(at.err)
  ELSE IF at.tag = "Err" THEN PErr(at.err)
  ELSE POk([version |-> version, name |-> name,
            splits |-> sp.items, attempts |-> at.items])

(* the signature loop stopping one byte early *)
signature_mismatch_3(content) == \E i \in 1..3 : content[i] # SIGNATURE[i]

(* from_bytes, the signature loop (lines 175-180): some byte differs *)
signature_mismatch(content) == \E i \in 1..4 : content[i] # SIGNATURE[i]

(* the version check off by one *)
version_unknown_off(version) == version > VERSION + 1

(* from_bytes, the version check (line 182) *)
version_unknown(version) == version > VERSION

(* from_bytes after the length check (lines 174-270) *)
FromBytesHeader(content, checks) ==
  LET content_len == Len(content)
  IN
  IF signature_mismatch(content) THEN PErr("InvalidSignature")
  ELSE
  LET version == content[5]
  IN
  IF version_unknown(version) THEN PErr("UnknownVersion")
  ELSE
  LET name_len == content[6]
      rem == usize_sub(content_len, 5, checks)
  IN
  IF name_len = 0 THEN PErr("InvalidRunName")
  ELSE IF ULt(rem, name_len) THEN PErr("InvalidHeaderLength")
  ELSE FromBytesChunks(content, 6 + name_len, version,
                       read_str_bytes(content, 6, name_len), checks)

(* from_bytes comparing the signature before it checks the length *)
from_bytes_sig_first(content, checks) ==
  IF \E i \in 1..Min(4, Len(content)) : content[i] # SIGNATURE[i]
  THEN PErr("InvalidSignature")
  ELSE IF Len(content) < 6 THEN PErr("InvalidHeaderLength")
  ELSE FromBytesHeader(content, checks)

(* RunData::from_bytes.  checks: the build has integer overflow checks *)
from_bytes(content, checks) ==
  IF Len(content) < 6 THEN PErr("InvalidHeaderLength")
  ELSE FromBytesHeader(content, checks)

(* RunData::add_split: [ok, ret, run] *)
add_split(r, split_name) ==
  IF Len(r.splits) > U8MAX THEN [ok |-> FALSE, ret |-> 0, run |-> r]
  ELSE LET r2 == [r EXCEPT !.splits = Append(@, split_name)]
       IN  [ok |-> TRUE, ret |-> Len(r2.splits), run |-> r2]

(* add_attempt, the loop over the durations (lines 276-279) *)
RECURSIVE AddAttemptLoop(_, _, _, _)
AddAttemptLoop(split_durations, i, total_duration, split_times) ==
  IF i > Len(split_durations)
  THEN [panic |-> FALSE,
        attempt |-> [total_duration |-> total_duration, split_times |-> split_times]]
  ELSE LET sd == split_durations[i]
           sum == DurationAdd(total_duration, sd)
       IN  IF sum.panic
           THEN [panic |-> TRUE,
                 attempt |-> [total_duration |-> total_duration,
                              split_times |-> split_times]]
           ELSE AddAttemptLoop(split_durations, i + 1, sum.dur,
                               Append(split_times, as_secs_f64(sd)))

(* RunData::add_attempt: [panic, run] *)
add_attempt(r, split_durations) ==
  LET a == AddAttemptLoop(split_durations, 1, DurationZERO, <<>>)
  IN  IF a.panic THEN [panic |-> TRUE, run |-> r]
      ELSE [panic |-> FALSE, run |-> [r EXCEPT !.attempts = Append(@, a.attempt)]]

(* write_to handing the signature and the version to the writer before    *)
(* the rest is encoded                                                     *)
write_to_streaming(r, io_fail_after) ==
  LET e == as_bytes(r)
  IN  IF ~e.ok THEN [res |-> "ByteGenError", msg |-> e.msg,
                     written |-> SIGNATURE \o <<r.version>>]
      ELSE IF io_fail_after >= 0 /\ io_fail_after < Len(e.bytes)
           THEN [res |-> "IOError", msg |-> "io",
                 written |-> SubSeq(e.bytes, 1, io_fail_after)]
      ELSE [res |-> "Ok", msg |-> "Ok", written |-> e.bytes]

(* RunData::write_to.  io_fail_after < 0: the writer accepts everything;   *)
(* otherwise write_all fails after the writer took that many bytes.        *)
(* written: the bytes handed to the writer.                                *)
write_to(r, io_fail_after) ==
  LET e == as_bytes(r)
  IN  IF ~e.ok THEN [res |-> "ByteGenError", msg |-> e.msg, written |-> <<>>]
      ELSE IF io_fail_after >= 0 /\ io_fail_after < Len(e.bytes)
           THEN [res |-> "IOError", msg |-> "io",
                 written |-> SubSeq(e.bytes, 1, io_fail_after)]
      ELSE [res |-> "Ok", msg |-> "Ok", written |-> e.bytes]

----------------------------------------------------------------------------
(* Inputs of the codec exploration *)

RunNames == { <<>>, <<65>>, <<65, 58, 66>>, <<195, 169>> }
LongNames == { Rep(U8MAX, 120), Rep(U8MAX + 1, 120) }
SplitNames == { <<83>>, <<84, 50>> }
MutBytes == { 0, 1, 255 }

RECURSIVE SeqsUpTo(_, _)
SeqsUpTo(S, n) ==
  IF n = 0 THEN { <<>> }
  ELSE LET shorter == SeqsUpTo(S, n - 1)
       IN  shorter \cup { Append(q, x) : q \in { t \in shorter : Len(t) = n - 1 }, x \in S }

(* the durations of an attempt that completed k splits: 1s, 2s, ... *)
DurList(k) == [i \in 1..k |-> DurationFromSecs(i)]

(* r after n calls of add_attempt(durs) *)
AddAttemptN(r, n, durs) ==
  [r EXCEPT !.attempts = @ \o Rep(n, add_attempt(r, durs).run.attempts[Len(r.attempts) + 1])]

(* RunData values right after construction; the last one stands for a run  *)
(* that already recorded many attempts                                     *)
InitRuns ==
  { new(n, s) : n \in RunNames, s \in SeqsUpTo(SplitNames, MaxSplits) }
  \cup { new(n, <<>>) : n \in LongNames }
  \cup { new(<<65>>, s) : s \in { Rep(U8MAX, <<83>>), Rep(U8MAX + 1, <<83>>),
                                  << Rep(U8MAX, 120) >>, << <<83>>, Rep(U8MAX + 1, 120) >> } }
  \cup { AddAttemptN(new(<<65>>, << <<83>> >>), U8MAX - 1, DurList(1)) }

(* byte k (from 1) of the little-endian form of a number below 2^31 *)
LeByte(n, k) == (n \div (256 ^ (k - 1))) % 256

(* the wire layout of an attempt: 8 bytes of seconds and 4 bytes of nanos, *)
(* least significant byte first, the count of split times, 8 bytes each    *)
AttemptLayout(a) ==
  [k \in 1..8 |-> a.total_duration.secs[9 - k]]
    \o [k \in 1..4 |-> LeByte(a.total_duration.nanos, k)]
    \o << Len(a.split_times) >>
    \o Flatten([j \in 1..Len(a.split_times) |->
                  [k \in 1..8 |-> a.split_times[j][9 - k]]])

(* the wire layout of a run *)
Layout(r) ==
  << 98, 115, 115, 69 >> \o << r.version >>
    \o << Len(r.name) >> \o r.name
    \o << Len(r.splits) >>
    \o Flatten([i \in 1..Len(r.splits) |-> << Len(r.splits[i]) >> \o r.splits[i]])
    \o << Len(r.attempts) >>
    \o Flatten([i \in 1..Len(r.attempts) |-> AttemptLayout(r.attempts[i])])

Replace(buf, p, v) == [buf EXCEPT ![p] = v]

Prefixes(bytes) == { SubSeq(bytes, 1, k) : k \in 0..Min(Len(bytes), MaxCut) }

(* the buffers handed to from_bytes: the encoding of the run (for a run    *)
(* that as_bytes refuses only for an attempt's split times, its layout as  *)
(* another writer of the format produces it), its truncations, and the     *)
(* short ones of these with one byte replaced                              *)
Buffers(r) ==
  LET e == as_bytes(r)
      base == IF e.ok THEN e.bytes
              ELSE IF e.msg = "AttemptSplitsMismatch" THEN Layout(r)
              ELSE SIGNATURE \o <<VERSION>>
      cuts == Prefixes(base) \cup { base }
      short == { c \in cuts : Len(c) <= 7 \/ (c = base /\ Len(c) <= MaxCut) }
  IN  cuts \cup UNION { { Replace(b, p, v) : p \in 1..Len(b), v \in MutBytes } :
                         b \in short }

----------------------------------------------------------------------------
(* Operations on the RunData object *)

PNone == [tag |-> "None", err |-> "None", run |-> NoRun]
AsNone == [ok |-> FALSE, bytes |-> <<>>, msg |-> "None"]
WNone == [res |-> "None", msg |-> "None", written |-> <<>>]

Last(op, buf, enc, dec, wr, ret) ==
  [op |-> op, buf |-> buf, enc |-> enc, dec |-> dec, wr |-> wr, ret |-> ret]

InitCodecVars ==
  /\ run \in InitRuns
  /\ last = Last("new", <<>>, AsNone, PNone, WNone, 0)

(* as_bytes, write_to and from_bytes leave the object as it is, so each is *)
(* applied once to an object that new, add_split and add_attempt built     *)
Built == last.op \in { "new", "add_split", "add_split_err", "add_attempt" }

AddSplit ==
  /\ Built
  /\ Len(run.splits) # MaxSplits
  /\ \E split_name \in SplitNames :
       LET a == add_split(run, split_name)
       IN  /\ run' = a.run
           /\ last' = Last(IF a.ok THEN "add_split" ELSE "add_split_err",
                           split_name, AsNone, PNone, WNone, a.ret)

AddAttempt ==
  /\ Built
  /\ Len(run.attempts) \notin { MaxAttempts, U8MAX + 1 }
  /\ \E k \in 0..MaxTimes :
       LET a == add_attempt(run, DurList(k))
       IN  /\ ~a.panic
           /\ run' = a.run
           /\ last' = Last("add_attempt", <<>>, AsNone, PNone, WNone, k)

AsBytes ==
  /\ Built
  /\ run' = run
  /\ last' = Last("as_bytes", <<>>, as_bytes(run), PNone, WNone, 0)

WriteTo ==
  /\ Built
  /\ run' = run
  /\ \E io_fail_after \in -1..1 :
       last' = Last("write_to", <<>>, AsNone, PNone, write_to(run, io_fail_after), 0)

FromBytes ==
  /\ Built
  /\ run' = run
  /\ \E buf \in Buffers(run), checks \in BOOLEAN :
       last' = Last("from_bytes", buf, AsNone, from_bytes(buf, checks), WNone, 0)

----------------------------------------------------------------------------
(* Stopwatch *)

None == <<>>
Some(x) == <<x>>

(* Stopwatch::new / Stopwatch::start_new *)
StopwatchNew == [start_time |-> None, elapsed |-> 0]
StopwatchStartNew(t) == [start_time |-> Some(t), elapsed |-> 0]

(* Stopwatch::is_running *)
is_running(sw) == sw.start_time # None

(* Stopwatch::time_elapsed, reading the clock at instant t *)
time_elapsed(sw, t) ==
  sw.elapsed + (IF sw.start_time = None THEN 0 ELSE t - sw.start_time[1])

(* start that takes a new mark even when the stopwatch is running *)
start_resets(sw, t) == [sw EXCEPT !.start_time = Some(t)]

(* Stopwatch::start *)
start(sw, t) ==
  IF sw.start_time = None THEN [sw EXCEPT !.start_time = Some(t)] ELSE sw

(* pause that stores the total but leaves the stopwatch running *)
pause_keeps_running(sw, t) ==
  IF sw.start_time # None
  THEN LET total_elapsed == time_elapsed(sw, t)
       IN  [sw |-> [start_time |-> sw.start_time, elapsed |-> total_elapsed],
            ret |-> total_elapsed]
  ELSE [sw |-> sw, ret |-> sw.elapsed]

(* Stopwatch::pause: [sw, ret] *)
pause(sw, t) ==
  IF sw.start_time # None
  THEN LET total_elapsed == time_elapsed(sw, t)
       IN  [sw |-> [start_time |-> None, elapsed |-> total_elapsed],
            ret |-> total_elapsed]
  ELSE [sw |-> sw, ret |-> sw.elapsed]

(* toggle returning whether the stopwatch was running before the call *)
toggle_returns_before(sw, t) ==
  IF is_running(sw) THEN [sw |-> pause(sw, t).sw, ret |-> TRUE]
  ELSE [sw |-> start(sw, t), ret |-> FALSE]

(* Stopwatch::toggle: [sw, ret] *)
toggle(sw, t) ==
  IF is_running(sw) THEN [sw |-> pause(sw, t).sw, ret |-> FALSE]
  ELSE [sw |-> start(sw, t), ret |-> TRUE]

(* Stopwatch::clear *)
clear_running(sw) == [start_time |-> Some(0), elapsed |-> 0]

clear(sw) == [start_time |-> None, elapsed |-> 0]

(* Stopwatch::update_start_time; the clock is read three times, at         *)
(* t1 <= t2 <= t3                                                          *)
update_start_time(sw, t1, t2, t3) ==
  LET split_time == time_elapsed(sw, t1)
  IN  IF sw.start_time # None
      THEN [sw |-> [start_time |-> Some(t3), elapsed |-> time_elapsed(sw, t2)],
            ret |-> split_time]
      ELSE [sw |-> sw, ret |-> split_time]

Sw == [start_time |-> start_time, elapsed |-> elapsed]

Ret(d, b) == [dur |-> d, flag |-> b]

SetSw(sw, op, ret) ==
  /\ start_time' = sw.start_time
  /\ elapsed' = sw.elapsed
  /\ sw_op' = op
  /\ sw_prev' = sw_op
  /\ sw_ret' = ret

InitSwVars ==
  /\ now = 0
  /\ \E c \in { "new", "start_new" } :
       /\ sw_op = c
       /\ start_time = (IF c = "new" THEN StopwatchNew ELSE StopwatchStartNew(now)).start_time
       /\ elapsed = 0
  /\ sw_prev = "none"
  /\ sw_ret = Ret(0, FALSE)

Tick ==
  /\ now < MaxNow
  /\ now' = now + 1
  /\ UNCHANGED <<start_time, elapsed, sw_op, sw_prev, sw_ret>>

Start == SetSw(start(Sw, now), "start", Ret(0, FALSE)) /\ now' = now

Pause ==
  LET p == pause(Sw, now)
  IN  SetSw(p.sw, "pause", Ret(p.ret, FALSE)) /\ now' = now

Toggle ==
  LET g == toggle(Sw, now)
  IN  SetSw(g.sw, "toggle", Ret(0, g.ret)) /\ now' = now

Clear == SetSw(clear(Sw), "clear", Ret(0, FALSE)) /\ now' = now

TimeElapsed ==
  SetSw(Sw, "time_elapsed", Ret(time_elapsed(Sw, now), FALSE)) /\ now' = now

IsRunning == SetSw(Sw, "is_running", Ret(0, is_running(Sw))) /\ now' = now

UpdateStartTime ==
  \E d1 \in 0..1, d2 \in 0..1 :
    /\ now + d1 + d2 <= MaxNow
    /\ LET u == update_start_time(Sw, now, now + d1, now + d1 + d2)
       IN  SetSw(u.sw, "update_start_time", Ret(u.ret, FALSE))
    /\ now' = now + d1 + d2

----------------------------------------------------------------------------
(* Run name: title and subtitle *)

(* str::find(':'): the 0-based byte index of the first ':' *)
find_colon(s) ==
  IF \E k \in 1..Len(s) : s[k] = 58
  THEN Some((CHOOSE k \in 1..Len(s) : s[k] = 58 /\ \A j \in 1..(k - 1) : s[j] # 58) - 1)
  ELSE None

(* &s[a..b] and &s[a..] with 0-based byte offsets *)
Slice(s, a, b) == SubSeq(s, a + 1, b)
SliceFrom(s, a) == SubSeq(s, a + 1, Len(s))

(* RunData::get_title *)
get_title(r) ==
  LET f == find_colon(r.name)
  IN  IF f # None THEN Slice(r.name, 0, f[1]) ELSE SliceFrom(r.name, 0)

set_title_alone(r, title) == [r EXCEPT !.name = title]

(* RunData::set_title *)
set_title(r, title) ==
  LET f == find_colon(r.name)
      subtitle == IF f # None
                  THEN IF f[1] + 1 >= Len(r.name) THEN <<>> ELSE SliceFrom(r.name, f[1] + 1)
                  ELSE <<>>
  IN  IF subtitle = <<>> THEN [r EXCEPT !.name = title]
      ELSE [r EXCEPT !.name = title \o <<58>> \o subtitle]

(* RunData::get_subtitle *)
get_subtitle(r) ==
  LET f == find_colon(r.name)
  IN  IF f # None
      THEN IF f[1] + 1 >= Len(r.name) THEN None ELSE Some(SliceFrom(r.name, f[1] + 1))
      ELSE None

set_subtitle_keeps_colon(r, subtitle) ==
  LET f == find_colon(r.name)
      title == IF f # None THEN Slice(r.name, 0, f[1]) ELSE <<>>
  IN  [r EXCEPT !.name = title \o <<58>> \o subtitle]

(* RunData::set_subtitle *)
set_subtitle(r, subtitle) ==
  LET f == find_colon(r.name)
      title == IF f # None THEN Slice(r.name, 0, f[1]) ELSE <<>>
  IN  IF subtitle = <<>> THEN [r EXCEPT !.name = title]
      ELSE [r EXCEPT !.name = title \o <<58>> \o subtitle]

(* RunData::get_split_name: self.splits.get(index), index counted from 0 *)
get_split_name(r, index) ==
  IF index < Len(r.splits) THEN Some(r.splits[index + 1]) ELSE None

(* RunData::get_name *)
get_name(r) == r.name

(* the texts typed into the title and subtitle fields *)
NameInputs == { <<>>, <<85>>, <<85, 114>>, <<58>>, <<65, 58, 66>>, <<195, 169>> }

SetTitle ==
  \E title \in NameInputs :
    /\ Len(set_title(run, title).name) <= MaxName
    /\ run' = set_title(run, title)
    /\ last' = Last("set_title", title, AsNone, PNone, WNone, 0)

SetSubtitle ==
  \E subtitle \in NameInputs :
    /\ Len(set_subtitle(run, subtitle).name) <= MaxName
    /\ run' = set_subtitle(run, subtitle)
    /\ last' = Last("set_subtitle", subtitle, AsNone, PNone, WNone, 0)

GetTitle ==
  /\ run' = run
  /\ last' = Last("get_title", <<>>, AsNone, PNone, WNone, get_title(run))

GetSubtitle ==
  /\ run' = run
  /\ last' = Last("get_subtitle", <<>>, AsNone, PNone, WNone, get_subtitle(run))

GetName ==
  /\ run' = run
  /\ last' = Last("get_name", <<>>, AsNone, PNone, WNone, get_name(run))

----------------------------------------------------------------------------
(* StopSplit *)

(* StopSplit::new *)
StopSplit_new == [split_start |-> None, elapsed |-> 0, completed |-> FALSE]

(* StopSplit::new_started *)
new_started(sw, t) ==
  [split_start |-> Some(time_elapsed(sw, t)), elapsed |-> 0, completed |-> FALSE]

(* StopSplit::not_started *)
not_started(sp) == sp.split_start = None

(* StopSplit::is_done *)
is_done(sp) == ~not_started(sp) /\ sp.completed

(* Duration - Duration: panics when the result would be negative *)
DurationSub(a, b) ==
  IF a >= b THEN [panic |-> FALSE, dur |-> a - b] ELSE [panic |-> TRUE, dur |-> 0]

StopSplit_time_elapsed_live(sp, sw, t) ==
  IF not_started(sp) THEN [panic |-> FALSE, dur |-> 0]
  ELSE DurationSub(time_elapsed(sw, t), sp.split_start[1])

(* StopSplit::time_elapsed: [panic, dur] *)
StopSplit_time_elapsed(sp, sw, t) ==
  IF not_started(sp) THEN [panic |-> FALSE, dur |-> 0]
  ELSE IF sp.completed THEN [panic |-> FALSE, dur |-> sp.elapsed]
  ELSE DurationSub(time_elapsed(sw, t), sp.split_start[1])

StopSplit_start_again(sp, sw, t) ==
  [sp EXCEPT !.elapsed = 0, !.split_start = Some(time_elapsed(sw, t))]

(* StopSplit::start *)
StopSplit_start(sp, sw, t) ==
  IF ~not_started(sp) THEN sp
  ELSE IF is_done(sp) THEN sp
  ELSE [sp EXCEPT !.elapsed = 0, !.split_start = Some(time_elapsed(sw, t))]

(* StopSplit::start_at_zero *)
start_at_zero(sp) ==
  IF ~not_started(sp) THEN sp
  ELSE IF is_done(sp) THEN sp
  ELSE [sp EXCEPT !.elapsed = 0, !.split_start = Some(0)]

(* StopSplit::stop: [panic, sp] *)
stop(sp, sw, t) ==
  IF ~not_started(sp)
  THEN LET d == DurationSub(time_elapsed(sw, t), sp.split_start[1])
       IN  IF d.panic THEN [panic |-> TRUE, sp |-> sp]
           ELSE [panic |-> FALSE, sp |-> [sp EXCEPT !.elapsed = d.dur, !.completed = TRUE]]
  ELSE [panic |-> FALSE, sp |-> sp]

resume_resets(sp) ==
  IF ~not_started(sp) THEN [sp EXCEPT !.completed = FALSE, !.elapsed = 0] ELSE sp

(* StopSplit::resume *)
resume(sp) == IF ~not_started(sp) THEN [sp EXCEPT !.completed = FALSE] ELSE sp

toggle_split_restarts(sp, sw, t) ==
  IF not_started(sp) THEN [panic |-> FALSE, sp |-> StopSplit_start(sp, sw, t)]
  ELSE IF sp.completed THEN [panic |-> FALSE, sp |-> StopSplit_new]
  ELSE stop(sp, sw, t)

(* StopSplit::toggle_split: [panic, sp] *)
toggle_split(sp, sw, t) ==
  IF not_started(sp) THEN [panic |-> FALSE, sp |-> StopSplit_start(sp, sw, t)]
  ELSE IF sp.completed THEN [panic |-> FALSE, sp |-> resume(sp)]
  ELSE stop(sp, sw, t)

StopSplit_clear_mark_only(sp) == [sp EXCEPT !.split_start = None]

(* StopSplit::clear *)
StopSplit_clear(sp) == [split_start |-> None, elapsed |-> 0, completed |-> FALSE]

(* a StopSplit call returned: the new split, the call and its result *)
SetSplit(sp, op, ret) ==
  /\ split' = sp
  /\ sp_op' = op
  /\ sp_calls' = 1 - sp_calls
  /\ sp_ret' = ret

(* a call ended the process with a panic, or returned *)
SplitOutcome(panic, sp, op, ret) ==
  IF panic THEN SetSplit(split, "panic", Ret(0, FALSE)) ELSE SetSplit(sp, op, ret)

(* the process is alive *)
Alive == sp_op # "panic"

SplitStart ==
  /\ Alive
  /\ SetSplit(StopSplit_start(split, Sw, now), "start", Ret(0, FALSE))

SplitStartAtZero ==
  /\ Alive
  /\ SetSplit(start_at_zero(split), "start_at_zero", Ret(0, FALSE))

SplitStop ==
  /\ Alive
  /\ LET r == stop(split, Sw, now)
     IN  SplitOutcome(r.panic, r.sp, "stop", Ret(0, FALSE))

SplitResume ==
  /\ Alive
  /\ SetSplit(resume(split), "resume", Ret(0, FALSE))

SplitToggle ==
  /\ Alive
  /\ LET r == toggle_split(split, Sw, now)
     IN  SplitOutcome(r.panic, r.sp, "toggle_split", Ret(0, FALSE))

SplitClear ==
  /\ Alive
  /\ SetSplit(StopSplit_clear(split), "clear", Ret(0, FALSE))

SplitTimeElapsed ==
  /\ Alive
  /\ LET r == StopSplit_time_elapsed(split, Sw, now)
     IN  SplitOutcome(r.panic, split, "time_elapsed", Ret(r.dur, FALSE))

SplitIsDone ==
  /\ Alive
  /\ SetSplit(split, "is_done", Ret(0, is_done(split)))

(* the stopwatch the split is measured against, under its own operations *)
SetRef(sw) ==
  /\ start_time' = sw.start_time
  /\ elapsed' = sw.elapsed
  /\ UNCHANGED <<now, sw_op, sw_prev, sw_ret>>

RefTick == Alive /\ Tick
RefStart == Alive /\ SetRef(start(Sw, now))
RefPause == Alive /\ SetRef(pause(Sw, now).sw)
RefClear == Alive /\ SetRef(clear(Sw))

InitSplitVars ==
  /\ split = StopSplit_new
  /\ sp_op = "new"
  /\ sp_calls = 0
  /\ sp_ret = Ret(0, FALSE)

----------------------------------------------------------------------------
(* HaiDomoApp: the session controller *)

(* the fields of HaiDomoApp that the key handlers use *)
App == [stopwatch |-> Sw, splits |-> app_splits, at |-> app_at]

AppOk(app) == [panic |-> FALSE, app |-> app]
AppPanic(app) == [panic |-> TRUE, app |-> app]

(* HaiDomoApp::new_with_splits: one pair per split of the run, numbered from 0 *)
new_with_splits(stopwatch, n) ==
  [stopwatch |-> stopwatch,
   splits |-> [i \in 1..n |-> [idx |-> i - 1, timer |-> StopSplit_new]],
   at |-> 0]

(* HaiDomoApp::is_started *)
is_started(app, t) ==
  is_running(app.stopwatch) \/ time_elapsed(app.stopwatch, t) # 0

start_timer_keeps_splits(app, t) ==
  LET sw == start(clear(app.stopwatch), t)
  IN  [app EXCEPT !.stopwatch = sw,
                  !.splits = [i \in DOMAIN app.splits |->
                                IF i = 1
                                THEN [app.splits[i] EXCEPT !.timer = start_at_zero(@)]
                                ELSE app.splits[i]]]

(* HaiDomoApp::start_timer *)
start_timer(app, t) ==
  LET sw == start(clear(app.stopwatch), t)
      cleared == [i \in DOMAIN app.splits |->
                    [app.splits[i] EXCEPT !.timer = StopSplit_clear(@)]]
  IN  [app EXCEPT !.stopwatch = sw,
                  !.splits = [i \in DOMAIN cleared |->
                                IF i = 1
                                THEN [cleared[i] EXCEPT !.timer = start_at_zero(@)]
                                ELSE cleared[i]]]

(* HaiDomoApp::stop_timer: [panic, app] *)
stop_timer(app, t) ==
  LET sw == pause(app.stopwatch, t).sw
      stopped == [i \in DOMAIN app.splits |->
                    IF ~is_done(app.splits[i].timer)
                    THEN stop(app.splits[i].timer, sw, t)
                    ELSE [panic |-> FALSE, sp |-> app.splits[i].timer]]
      paused == [app EXCEPT !.stopwatch = sw]
  IN  IF \E i \in DOMAIN app.splits : stopped[i].panic THEN AppPanic(paused)
      ELSE AppOk([paused EXCEPT !.splits = [i \in DOMAIN app.splits |->
                                              [app.splits[i] EXCEPT !.timer = stopped[i].sp]]])

next_split_wall_clock(app, t1, t2) ==
  LET at == app.at + 1
      moved == [app EXCEPT !.at = at]
  IN  IF at >= Len(app.splits) THEN stop_timer(moved, t1)
      ELSE LET prev == stop(app.splits[at].timer, app.stopwatch, t1)
               next == IF not_started(app.splits[at + 1].timer)
                       THEN [app.splits[at + 1].timer EXCEPT !.split_start = Some(t2)]
                       ELSE app.splits[at + 1].timer
           IN  IF prev.panic THEN AppPanic(moved)
               ELSE AppOk([moved EXCEPT !.splits[at].timer = prev.sp,
                                        !.splits[at + 1].timer = next])

(* HaiDomoApp::next_split: [panic, app]; prev.stop reads the clock at t1    *)
(* and next.start reads it again at t2                                      *)
next_split(app, t1, t2) ==
  LET at == app.at + 1
      moved == [app EXCEPT !.at = at]
  IN  IF at >= Len(app.splits) THEN stop_timer(moved, t1)
      ELSE LET prev == stop(app.splits[at].timer, app.stopwatch, t1)
               next == StopSplit_start(app.splits[at + 1].timer, app.stopwatch, t2)
           IN  IF prev.panic THEN AppPanic(moved)
               ELSE AppOk([moved EXCEPT !.splits[at].timer = prev.sp,
                                        !.splits[at + 1].timer = next])

(* the split rows of HaiDomoApp::update: StopSplit::show of every split *)
show_panics(app, t) ==
  \E i \in DOMAIN app.splits :
    StopSplit_time_elapsed(app.splits[i].timer, app.stopwatch, t).panic

(* the handler leaves the application in the state app after the event k *)
SetApp(r, k) ==
  /\ start_time' = r.app.stopwatch.start_time
  /\ elapsed' = r.app.stopwatch.elapsed
  /\ app_splits' = r.app.splits
  /\ app_at' = r.app.at
  /\ key' = (IF r.panic THEN "panic" ELSE k)
  /\ UNCHANGED <<sw_op, sw_prev, sw_ret>>

Running == key # "panic"

(* update, the Space key (lines 318-326) *)
KeySpace ==
  /\ Running
  /\ now' = now
  /\ IF ~is_started(App, now)
     THEN SetApp(AppOk(start_timer(App, now)), "Space")
     ELSE SetApp(AppOk([App EXCEPT !.stopwatch = toggle(Sw, now).sw]), "Space")

(* update, the S key (lines 327-329) *)
KeyS ==
  /\ Running
  /\ app_at < MaxAt
  /\ \E d \in 0..1 :
       /\ now + d <= MaxNow
       /\ now' = now + d
       /\ SetApp(next_split(App, now, now + d), "S")

(* update, a frame that draws the split rows (lines 292-301) *)
Frame ==
  /\ Running
  /\ now' = now
  /\ SetApp(IF show_panics(App, now) THEN AppPanic(App) ELSE AppOk(App), "Frame")

AppTick == Running /\ Tick /\ UNCHANGED appVars

InitAppVars ==
  /\ app_splits = <<>>
  /\ app_at = 0
  /\ key = "none"

----------------------------------------------------------------------------
(* Specifications *)

(* the codec: a RunData object under its operations *)
InitCodec ==
  /\ InitCodecVars
  /\ now = 0 /\ start_time = None /\ elapsed = 0
  /\ sw_op = "new" /\ sw_prev = "none" /\ sw_ret = Ret(0, FALSE)
  /\ InitSplitVars
  /\ InitAppVars

NextCodec ==
  \/ AddSplit /\ UNCHANGED <<swVars, splitVars, appVars>>
  \/ AddAttempt /\ UNCHANGED <<swVars, splitVars, appVars>>
  \/ AsBytes /\ UNCHANGED <<swVars, splitVars, appVars>>
  \/ WriteTo /\ UNCHANGED <<swVars, splitVars, appVars>>
  \/ FromBytes /\ UNCHANGED <<swVars, splitVars, appVars>>

SpecCodec == InitCodec /\ [][NextCodec]_vars

(* the stopwatch under its operations and the passing of time *)
InitSW ==
  /\ InitSwVars
  /\ run = new(<<65>>, <<>>)
  /\ last = Last("new", <<>>, AsNone, PNone, WNone, 0)
  /\ InitSplitVars
  /\ InitAppVars

NextSW ==
  \/ Tick /\ UNCHANGED <<codecVars, splitVars, appVars>>
  \/ Start /\ UNCHANGED <<codecVars, splitVars, appVars>>
  \/ Pause /\ UNCHANGED <<codecVars, splitVars, appVars>>
  \/ Toggle /\ UNCHANGED <<codecVars, splitVars, appVars>>
  \/ Clear /\ UNCHANGED <<codecVars, splitVars, appVars>>
  \/ TimeElapsed /\ UNCHANGED <<codecVars, splitVars, appVars>>
  \/ IsRunning /\ UNCHANGED <<codecVars, splitVars, appVars>>
  \/ UpdateStartTime /\ UNCHANGED <<codecVars, splitVars, appVars>>

SpecSW == InitSW /\ [][NextSW]_vars

(* a run under the title and subtitle operations of the name fields *)
InitName ==
  /\ \E name \in RunNames : run = new(name, <<>>)
  /\ last = Last("new", <<>>, AsNone, PNone, WNone, 0)
  /\ now = 0 /\ start_time = None /\ elapsed = 0
  /\ sw_op = "new" /\ sw_prev = "none" /\ sw_ret = Ret(0, FALSE)
  /\ InitSplitVars
  /\ InitAppVars

NextName ==
  \/ SetTitle /\ UNCHANGED <<swVars, splitVars, appVars>>
  \/ SetSubtitle /\ UNCHANGED <<swVars, splitVars, appVars>>
  \/ GetTitle /\ UNCHANGED <<swVars, splitVars, appVars>>
  \/ GetSubtitle /\ UNCHANGED <<swVars, splitVars, appVars>>
  \/ GetName /\ UNCHANGED <<swVars, splitVars, appVars>>

SpecName == InitName /\ [][NextName]_vars

(* the session controller under the Space and S keys, redraws and the clock *)
InitApp ==
  /\ now = 0 /\ start_time = StopwatchNew.start_time /\ elapsed = StopwatchNew.elapsed
  /\ sw_op = "new" /\ sw_prev = "none" /\ sw_ret = Ret(0, FALSE)
  /\ run = new(<<65>>, <<>>)
  /\ last = Last("new", <<>>, AsNone, PNone, WNone, 0)
  /\ InitSplitVars
  /\ \E n \in 0..MaxAppSplits :
       /\ app_splits = new_with_splits(StopwatchNew, n).splits
       /\ app_at = new_with_splits(StopwatchNew, n).at
  /\ key = "none"

NextApp ==
  \/ KeySpace /\ UNCHANGED <<codecVars, splitVars>>
  \/ KeyS /\ UNCHANGED <<codecVars, splitVars>>
  \/ Frame /\ UNCHANGED <<codecVars, splitVars>>
  \/ AppTick /\ UNCHANGED <<codecVars, splitVars>>

SpecApp == InitApp /\ [][NextApp]_vars

(* a split timer under its operations, measured against a stopwatch that   *)
(* is started, paused and cleared while the clock advances; the split is   *)
(* created by new or by new_started                                        *)
InitSplit ==
  /\ now = 0 /\ start_time = None /\ elapsed = 0
  /\ sw_op = "new" /\ sw_prev = "none" /\ sw_ret = Ret(0, FALSE)
  /\ run = new(<<65>>, <<>>)
  /\ last = Last("new", <<>>, AsNone, PNone, WNone, 0)
  /\ \E c \in { "new", "new_started" } :
       /\ sp_op = c
       /\ split = (IF c = "new" THEN StopSplit_new ELSE new_started(Sw, now))
  /\ sp_calls = 0
  /\ sp_ret = Ret(0, FALSE)
  /\ InitAppVars

NextSplit ==
  \/ SplitStart /\ UNCHANGED <<codecVars, swVars, appVars>>
  \/ SplitStartAtZero /\ UNCHANGED <<codecVars, swVars, appVars>>
  \/ SplitStop /\ UNCHANGED <<codecVars, swVars, appVars>>
  \/ SplitResume /\ UNCHANGED <<codecVars, swVars, appVars>>
  \/ SplitToggle /\ UNCHANGED <<codecVars, swVars, appVars>>
  \/ SplitClear /\ UNCHANGED <<codecVars, swVars, appVars>>
  \/ SplitTimeElapsed /\ UNCHANGED <<codecVars, swVars, appVars>>
  \/ SplitIsDone /\ UNCHANGED <<codecVars, swVars, appVars>>
  \/ RefTick /\ UNCHANGED <<codecVars, splitVars, appVars>>
  \/ RefStart /\ UNCHANGED <<codecVars, splitVars, appVars>>
  \/ RefPause /\ UNCHANGED <<codecVars, splitVars, appVars>>
  \/ RefClear /\ UNCHANGED <<codecVars, splitVars, appVars>>

SpecSplit == InitSplit /\ [][NextSplit]_vars


----------------------------------------------------------------------------
(* Properties of the codec *)

(* the Run Data invariants of the data model *)
ValidRun(r) ==
  /\ Len(r.name) <= 255
  /\ Len(r.splits) <= 255
  /\ \A i \in 1..Len(r.splits) : Len(r.splits[i]) <= 255
  /\ Len(r.attempts) <= 255
  /\ \A i \in 1..Len(r.attempts) : Len(r.attempts[i].split_times) <= Len(r.splits)

Decoded == last.op = "from_bytes"
Encoded == last.op = "as_bytes"

(* C1: round trip.  Every run that satisfies the Run Data invariants and   *)
(* has version 0 is encoded by as_bytes, and from_bytes on that encoding   *)
(* returns Ok with the same version, name, splits and attempts.            *)
C1_RoundTrip ==
  (ValidRun(run) /\ run.version = 0) =>
     /\ as_bytes(run).ok
     /\ (Decoded /\ last.buf = as_bytes(run).bytes) => last.dec = POk(run)

(* C2: from_bytes returns Ok or Err on every buffer: it never panics on an *)
(* index past the end or on a subtraction below zero.                      *)
C2_NeverPanics == Decoded => last.dec.tag \in { "Ok", "Err" }

(* C3: a buffer shorter than 6 bytes is rejected with InvalidHeaderLength, *)
(* whatever its bytes are.                                                 *)
C3_ShortHeader ==
  (Decoded /\ Len(last.buf) < 6) => last.dec = PErr("InvalidHeaderLength")

C3_Witness ==
  /\ Decoded
  /\ Len(last.buf) = 5
  /\ SubSeq(last.buf, 1, 4) # SIGNATURE
  /\ last.dec = PErr("InvalidHeaderLength")

(* C4 as stated: any buffer whose first four bytes differ from the         *)
(* signature is rejected with InvalidSignature.                            *)
C4_Original ==
  (Decoded /\ Len(last.buf) >= 4 /\ SubSeq(last.buf, 1, 4) # SIGNATURE)
     => last.dec = PErr("InvalidSignature")

(* C4 amended: any buffer of at least 6 bytes whose first four bytes       *)
(* differ from the signature is rejected with InvalidSignature, whatever   *)
(* the rest of the buffer holds.                                           *)
C4_BadSignature ==
  (Decoded /\ Len(last.buf) >= 6 /\ SubSeq(last.buf, 1, 4) # SIGNATURE)
     => last.dec = PErr("InvalidSignature")

C4_Witness ==
  /\ Decoded
  /\ Len(last.buf) > 6
  /\ SubSeq(last.buf, 1, 3) = SubSeq(SIGNATURE, 1, 3)
  /\ last.buf[4] # SIGNATURE[4]
  /\ last.dec = PErr("InvalidSignature")

(* the buffer starts with the signature *)
HasSignature(buf) == Len(buf) >= 4 /\ SubSeq(buf, 1, 4) = SIGNATURE

(* C5 as stated: a buffer with the signature and a version byte above 0 is *)
(* rejected with UnknownVersion, and version 0 is never rejected as        *)
(* unknown.                                                                *)
C5_Original ==
  (Decoded /\ HasSignature(last.buf) /\ Len(last.buf) >= 5) =>
     IF last.buf[5] > 0 THEN last.dec = PErr("UnknownVersion")
     ELSE last.dec # PErr("UnknownVersion")

(* C5 amended: a buffer of at least 6 bytes with the signature and a       *)
(* version byte above 0 is rejected with UnknownVersion, even when every   *)
(* other byte is well formed; version 0 is never rejected as unknown.      *)
C5_UnknownVersion ==
  (Decoded /\ HasSignature(last.buf) /\ Len(last.buf) >= 6) =>
     IF last.buf[5] > 0 THEN last.dec = PErr("UnknownVersion")
     ELSE last.dec # PErr("UnknownVersion")

(* a version byte above 0 in a buffer that decodes with version 0 *)
C5_Witness ==
  /\ Decoded
  /\ HasSignature(last.buf) /\ Len(last.buf) >= 6
  /\ last.buf[5] > 0
  /\ last.dec = PErr("UnknownVersion")
  /\ from_bytes(Replace(last.buf, 5, 0), TRUE).tag = "Ok"


(* some length of the run does not fit its length byte *)
OverCap(r) ==
  \/ Len(r.name) > 255
  \/ \E i \in 1..Len(r.splits) : Len(r.splits[i]) > 255
  \/ Len(r.splits) > 255
  \/ Len(r.attempts) > 255

(* C6: as_bytes returns Err and no bytes whenever the run name or a split  *)
(* name is longer than 255 bytes or the run has more than 255 splits or    *)
(* attempts; it never emits a length byte for a length above 255.          *)
C6_LengthCaps ==
  Encoded => /\ OverCap(run) => (~last.enc.ok /\ last.enc.bytes = <<>>)
             /\ last.enc.ok => ~OverCap(run)

(* the run reached 256 attempts through add_attempt and as_bytes refused *)
C6_Witness ==
  /\ Encoded
  /\ Len(run.attempts) = 256 /\ Len(run.name) <= 255 /\ Len(run.splits) <= 255
  /\ ~last.enc.ok /\ last.enc.msg = "TooManyAttempts"

(* some attempt records more split times than the run has splits *)
Mismatch(r) ==
  \E i \in 1..Len(r.attempts) : Len(r.attempts[i].split_times) > Len(r.splits)

(* C7: as_bytes returns Err whenever some attempt records more split times *)
(* than the run has splits; it returns Ok only if no attempt does.         *)
C7_SplitCountMismatch ==
  Encoded => /\ Mismatch(run) => ~last.enc.ok
             /\ last.enc.ok => ~Mismatch(run)

C7_Witness ==
  /\ Encoded
  /\ Len(run.splits) = 1
  /\ \E i \in 1..Len(run.attempts) : Len(run.attempts[i].split_times) = 2
  /\ last.enc = AsErr("AttemptSplitsMismatch")

(* C8: whenever as_bytes succeeds its output is exactly the wire layout:   *)
(* signature, version, name length and name, splits count and each split   *)
(* with its length, attempts count and each attempt, nothing more; every   *)
(* count or length byte is the real count or length.                       *)
C8_ExactLayout ==
  (Encoded /\ last.enc.ok) => last.enc.bytes = Layout(run)

C8_Witness ==
  /\ Encoded /\ last.enc.ok
  /\ Len(run.splits) = 2 /\ run.splits[1] # run.splits[2]
  /\ Len(run.attempts) = 2
  /\ Len(run.attempts[1].split_times) = 2
  /\ Len(run.attempts[2].split_times) = 1

(* C9: write_to never writes partially.  When as_bytes fails it returns    *)
(* ByteGenError and the writer got no byte; the writer gets bytes only     *)
(* when the whole buffer was built, and then only bytes of that buffer.    *)
C9_NoPartialWrite ==
  last.op = "write_to" =>
     /\ ~as_bytes(run).ok => (last.wr.res = "ByteGenError" /\ last.wr.written = <<>>)
     /\ last.wr.written # <<>> =>
          /\ as_bytes(run).ok
          /\ last.wr.written = SubSeq(as_bytes(run).bytes, 1, Len(last.wr.written))

(* encoding failed after the signature, the version and the name were      *)
(* already pushed on the buffer                                            *)
C9_Witness ==
  /\ last.op = "write_to"
  /\ as_bytes(run) = AsErr("AttemptSplitsMismatch")
  /\ last.wr.res = "ByteGenError"
  /\ last.wr.written = <<>>

----------------------------------------------------------------------------
(* Properties of the stopwatch *)

(* C10: pause on a running stopwatch returns accumulated + (now - running  *)
(* since), stores it as the accumulated time and leaves the stopwatch      *)
(* idle; pause on an idle stopwatch returns the accumulated time and       *)
(* changes nothing; so two pause calls in a row return the same value      *)
(* however far the clock advanced between them.                            *)
C10_Pause ==
  [][ /\ (sw_op' = "pause" /\ sw_prev' = sw_op /\ now' = now) =>
           IF start_time # None
           THEN /\ sw_ret'.dur = elapsed + (now - start_time[1])
                /\ elapsed' = sw_ret'.dur
                /\ start_time' = None
           ELSE /\ sw_ret'.dur = elapsed
                /\ elapsed' = elapsed
                /\ start_time' = start_time
      /\ (sw_op = "pause" /\ sw_op' = "pause") => sw_ret'.dur = sw_ret.dur
    ]_vars

(* a second pause in a row, after the clock moved on since the first *)
C10_Witness ==
  /\ sw_op = "pause" /\ sw_prev = "pause"
  /\ start_time = None
  /\ sw_ret.dur = elapsed /\ elapsed > 0
  /\ now > elapsed


(* the value time_elapsed() has in the current state *)
TE == time_elapsed(Sw, now)

(* a step in which only the clock advances *)
ClockAdvance ==
  now' > now /\ UNCHANGED <<start_time, elapsed, sw_op, sw_prev, sw_ret>>

(* a step that is the call op of the stopwatch *)
SwCall(op) == sw_op' = op /\ sw_prev' = sw_op /\ now' = now

(* C11: over clock advances and start, pause and toggle calls the value of *)
(* time_elapsed() never decreases: it is constant over a clock advance     *)
(* while idle, grows by exactly the advance while running, and a start on  *)
(* a running stopwatch keeps the running-since mark.                       *)
C11_Monotonic ==
  [][ /\ ClockAdvance =>
           /\ TE' >= TE
           /\ TE' = (IF start_time = None THEN TE ELSE TE + (now' - now))
      /\ (SwCall("start") \/ SwCall("pause") \/ SwCall("toggle")) =>
           /\ TE' >= TE
           /\ TE' = TE
      /\ (SwCall("start") /\ start_time # None) => start_time' = start_time
    ]_vars

(* a start on a stopwatch that has been running for a while, after an      *)
(* earlier pause                                                           *)
C11_Witness ==
  /\ sw_op = "start" /\ sw_prev = "start"
  /\ start_time # None /\ start_time[1] < now
  /\ elapsed > 0

(* C12: toggle pauses a running stopwatch and returns false, starts an     *)
(* idle one and returns true; the returned boolean equals is_running()     *)
(* right after the call, and the call leaves time_elapsed() as it was.     *)
C12_Toggle ==
  [][ SwCall("toggle") =>
        /\ IF start_time # None
           THEN /\ start_time' = None /\ elapsed' = TE
                /\ sw_ret'.flag = FALSE
           ELSE /\ start_time' = Some(now) /\ elapsed' = elapsed
                /\ sw_ret'.flag = TRUE
        /\ sw_ret'.flag = is_running([start_time |-> start_time', elapsed |-> elapsed'])
        /\ TE' = TE
    ]_vars

(* a toggle paused a stopwatch that had run for a while *)
C12_Witness ==
  /\ sw_op = "toggle" /\ sw_ret.flag = FALSE
  /\ start_time = None /\ elapsed > 0


(* a StopSplit call that returned *)
SplitCall(op) == sp_calls' # sp_calls /\ sp_op' = op

(* C13: once a split is completed, its recorded duration stays the same     *)
(* through every later stop call and time_elapsed query, whatever the       *)
(* stopwatch shows, and the queries return that duration.                   *)
C13_Frozen ==
  [][ (is_done(split) /\ (SplitCall("stop") \/ SplitCall("time_elapsed"))) =>
        /\ split'.elapsed = split.elapsed
        /\ is_done(split')
        /\ SplitCall("time_elapsed") => sp_ret'.dur = split.elapsed ]_vars

(* C14: toggle_split starts an unstarted split at the stopwatch's elapsed   *)
(* time, completes a running split, sets a completed split running again    *)
(* with its start mark and duration kept, and never makes a started split   *)
(* unstarted.                                                               *)
C14_ToggleCycle ==
  [][ SplitCall("toggle_split") =>
        /\ not_started(split) =>
             /\ split'.split_start = Some(TE)
             /\ ~split'.completed
        /\ (~not_started(split) /\ ~split.completed) =>
             /\ is_done(split')
             /\ split'.split_start = split.split_start
        /\ is_done(split) =>
             /\ ~split'.completed
             /\ split'.split_start = split.split_start
             /\ split'.elapsed = split.elapsed
        /\ ~not_started(split) => ~not_started(split') ]_vars

(* a split that was completed and set running again by toggle_split *)
C14_Witness ==
  /\ sp_op = "toggle_split"
  /\ ~not_started(split)
  /\ ~split.completed
  /\ split.elapsed > 0

(* C17: a time_elapsed query that returns leaves the split alone and gives  *)
(* zero on an unstarted split, the recorded duration on a completed one and *)
(* otherwise the stopwatch's elapsed time minus the start mark; a stop on a *)
(* running split started at zero records the stopwatch's elapsed time.      *)
C17_TimeElapsed ==
  [][ /\ SplitCall("time_elapsed") =>
           /\ split' = split
           /\ sp_ret'.dur = (IF not_started(split) THEN 0
                             ELSE IF split.completed THEN split.elapsed
                             ELSE TE - split.split_start[1])
      /\ (SplitCall("stop") /\ split.split_start = Some(0) /\ ~split.completed) =>
           split'.elapsed = TE ]_vars

(* a split started at zero and stopped, queried when the stopwatch shows a  *)
(* different time                                                           *)
C17_Witness ==
  /\ sp_op = "time_elapsed"
  /\ is_done(split)
  /\ split.split_start = Some(0)
  /\ sp_ret.dur = split.elapsed
  /\ sp_ret.dur > 0
  /\ TE # sp_ret.dur

(* C18: start and start_at_zero leave a started split as it is, and the     *)
(* start mark of a started split changes only in a clear.                   *)
C18_StartOnce ==
  [][ /\ ((SplitCall("start") \/ SplitCall("start_at_zero")) /\ ~not_started(split)) =>
           split' = split
      /\ (~not_started(split) /\ split'.split_start # split.split_start) =>
           SplitCall("clear") ]_vars

(* start was called on a completed split whose mark differs from the        *)
(* stopwatch's elapsed time                                                 *)
C18_Witness ==
  /\ sp_op = "start"
  /\ is_done(split)
  /\ split.split_start[1] # TE

(* C19: resume on a started split only clears the completed flag; on an     *)
(* unstarted split it changes nothing.                                      *)
C19_Resume ==
  [][ SplitCall("resume") =>
        IF not_started(split) THEN split' = split
        ELSE split' = [split EXCEPT !.completed = FALSE] ]_vars

(* a completed split with a recorded duration was resumed *)
C19_Witness ==
  /\ sp_op = "resume"
  /\ ~not_started(split)
  /\ ~split.completed
  /\ split.elapsed > 0

(* C16: a run that holds at most 255 splits still holds at most 255 splits  *)
(* after an add_split call, which fails and appends nothing when the run    *)
(* already has 255 splits.                                                  *)
C16_SplitCap ==
  [][ Len(run.splits) <= U8MAX =>
        /\ Len(run'.splits) <= U8MAX
        /\ (Len(run.splits) = U8MAX /\ last'.op \in { "add_split", "add_split_err" }) =>
             (last'.op = "add_split_err" /\ run' = run) ]_vars

(* name is T:S with T the first k-1 bytes, both non-empty and free of ':' *)
IsTitleSub(name, k) ==
  /\ 1 < k /\ k < Len(name)
  /\ \A j \in 1..Len(name) : (name[j] = 58) <=> (j = k)

(* C15: when the name is T:S with T and S non-empty and free of ':',        *)
(* get_title returns T and get_subtitle returns Some(S); set_subtitle("")   *)
(* on such a run leaves exactly T as the name and get_subtitle is then None.*)
C15_TitleSubtitle ==
  /\ [](\A k \in 1..Len(run.name) :
          IsTitleSub(run.name, k) =>
            /\ last.op = "get_title" => last.ret = SubSeq(run.name, 1, k - 1)
            /\ last.op = "get_subtitle" =>
                 last.ret = Some(SubSeq(run.name, k + 1, Len(run.name))))
  /\ [][ \A k \in 1..Len(run.name) :
           (IsTitleSub(run.name, k) /\ last'.op = "set_subtitle" /\ last'.buf = <<>>) =>
             /\ run'.name = SubSeq(run.name, 1, k - 1)
             /\ get_subtitle(run') = None ]_vars
  /\ []((last.op = "get_subtitle" /\ \A j \in 1..Len(run.name) : run.name[j] # 58) =>
          last.ret = None)

(* set_subtitle("") left a non-empty title without ':' as the whole name *)
C15_Witness ==
  /\ last.op = "set_subtitle"
  /\ last.buf = <<>>
  /\ run.name # <<>>
  /\ \A j \in 1..Len(run.name) : run.name[j] # 58

(* the stopwatch goes from idle to running in this step *)
EntersRunning == start_time = None /\ start_time' # None

(* C20 as stated: every stopwatch is idle with zero accumulated time until  *)
(* its first call, and it starts running only in a start or toggle call.    *)
C20_Original ==
  /\ [](sw_prev = "none" => (start_time = None /\ elapsed = 0))
  /\ [][EntersRunning => (SwCall("start") \/ SwCall("toggle"))]_vars

(* C20: until its first call a stopwatch made by new is idle and one made   *)
(* by start_new is running, both with zero accumulated time; afterwards an  *)
(* idle stopwatch starts running only in a start or toggle call.            *)
C20_CreatedThenStarted ==
  /\ [](sw_prev = "none" =>
          /\ elapsed = 0
          /\ sw_op = "new" => start_time = None
          /\ sw_op = "start_new" => start_time = Some(0))
  /\ [][EntersRunning => (SwCall("start") \/ SwCall("toggle"))]_vars

(* a stopwatch made by new, started by toggle after a pause with time on it *)
C20_Witness ==
  /\ sw_op = "toggle"
  /\ sw_prev = "pause"
  /\ start_time # None
  /\ elapsed > 0

(* C21: the stopwatch's accumulated time changes only in a pause or a       *)
(* toggle, where it becomes the elapsed time so far, or in a clear, where   *)
(* it becomes zero; start, time_elapsed, is_running and update_start_time   *)
(* leave it as it is.                                                       *)
C21_AccumulatedOnlyAtPause ==
  [][ elapsed' # elapsed =>
        \/ sw_op' \in { "pause", "toggle" } /\ start_time # None /\ elapsed' = TE
        \/ sw_op' = "clear" /\ elapsed' = 0 ]_vars

(* the header of buf up to the name is well formed and the name is whole *)
NameWhole(buf) ==
  /\ Len(buf) >= 6
  /\ SubSeq(buf, 1, 4) = SIGNATURE
  /\ buf[5] <= VERSION
  /\ buf[6] > 0
  /\ Len(buf) >= 6 + buf[6]

Scan(tag, pos) == [tag |-> tag, pos |-> pos]

(* reading k splits of the wire layout after the first pos bytes of buf:    *)
(* where the buffer ends too early, or the position after the last split    *)
RECURSIVE SplitsScan(_, _, _)
SplitsScan(buf, pos, k) ==
  IF k = 0 THEN Scan("whole", pos)
  ELSE IF pos >= Len(buf) THEN Scan("no length byte", pos)
  ELSE IF Len(buf) - (pos + 1) < buf[pos + 1] THEN Scan("short name", pos)
  ELSE SplitsScan(buf, pos + 1 + buf[pos + 1], k - 1)

(* the same for k attempts: 12 bytes of duration, the count byte, the times *)
RECURSIVE AttemptsScan(_, _, _)
AttemptsScan(buf, pos, k) ==
  IF k = 0 THEN Scan("whole", pos)
  ELSE IF Len(buf) - pos < 13 THEN Scan("short header", pos)
  ELSE IF Len(buf) - (pos + 13) < 8 * buf[pos + 13] THEN Scan("short times", pos)
  ELSE AttemptsScan(buf, pos + 13 + 8 * buf[pos + 13], k - 1)

(* the splits chunk of buf, which starts after the name *)
SplitsChunk(buf) ==
  LET q == 6 + buf[6]
  IN  IF q >= Len(buf) THEN Scan("no count", q)
      ELSE SplitsScan(buf, q + 1, buf[q + 1])

(* the attempts chunk of buf, which starts after a whole splits chunk *)
AttemptsChunk(buf) ==
  LET p == SplitsChunk(buf).pos
  IN  IF p >= Len(buf) THEN Scan("no count", p)
      ELSE AttemptsScan(buf, p + 1, buf[p + 1])

(* C24: a buffer of the decoder with a good signature and version fails     *)
(* with InvalidRunName when its name length is zero, with                   *)
(* InvalidSplitsChunk when it ends inside the splits chunk and with         *)
(* InvalidAttemptsChunk when its attempts chunk is absent or cut short.     *)
C24_ErrorByPlace ==
  (last.op = "from_bytes" /\ Len(last.buf) <= MaxCut) =>
    LET buf == last.buf
    IN  /\ (Len(buf) >= 6 /\ SubSeq(buf, 1, 4) = SIGNATURE /\ buf[5] <= VERSION
              /\ buf[6] = 0) => last.dec = PErr("InvalidRunName")
        /\ (NameWhole(buf) /\ SplitsChunk(buf).tag # "whole") =>
             last.dec = PErr("InvalidSplitsChunk")
        /\ (NameWhole(buf) /\ SplitsChunk(buf).tag = "whole"
              /\ AttemptsChunk(buf).tag # "whole") =>
             last.dec = PErr("InvalidAttemptsChunk")

(* C25: from_bytes accepts buffers in which an attempt announces more split *)
(* times than the buffer has splits, the decoded run then holds such an     *)
(* attempt, and as_bytes fails on every decoded run of this kind.           *)
C25_DecodeSkipsSplitCheck ==
  (Decoded /\ last.dec.tag = "Ok" /\ Mismatch(last.dec.run)) =>
    /\ ~as_bytes(last.dec.run).ok
    /\ as_bytes(last.dec.run) = AsErr("AttemptSplitsMismatch")

(* a whole buffer with one split and an attempt of two split times decoded  *)
(* into a run that as_bytes refuses                                         *)
C25_Witness ==
  /\ Decoded
  /\ last.dec.tag = "Ok"
  /\ Len(last.dec.run.splits) = 1
  /\ \E i \in 1..Len(last.dec.run.attempts) :
       Len(last.dec.run.attempts[i].split_times) = 2
  /\ ~as_bytes(last.dec.run).ok

(* the count bytes of the k attempts announced after the first pos bytes *)
RECURSIVE UsedCounts(_, _, _)
UsedCounts(buf, pos, k) ==
  IF k = 0 \/ Len(buf) - pos < 13 THEN <<>>
  ELSE << buf[pos + 13] >> \o UsedCounts(buf, pos + 13 + 8 * buf[pos + 13], k - 1)

(* C26: when from_bytes succeeds, the run has as many splits as the splits  *)
(* count byte says and as many attempts as the attempts count byte says,    *)
(* the i-th attempt holding as many split times as its own count byte says. *)
C26_CountsKept ==
  (Decoded /\ last.dec.tag = "Ok" /\ Len(last.buf) <= MaxCut) =>
    LET buf == last.buf
        r == last.dec.run
        q == 6 + buf[6]
        p == SplitsChunk(buf).pos
        used == UsedCounts(buf, p + 1, buf[p + 1])
    IN  /\ Len(r.splits) = buf[q + 1]
        /\ Len(r.attempts) = buf[p + 1]
        /\ Len(used) = buf[p + 1]
        /\ \A i \in 1..Len(r.attempts) : Len(r.attempts[i].split_times) = used[i]

(* C27: a set_subtitle call leaves the title as it was, whatever the name   *)
(* and the subtitle are.                                                    *)
C27_SubtitleKeepsTitle ==
  [][ last'.op = "set_subtitle" => get_title(run') = get_title(run) ]_vars

(* C28: after set_title(t) with t free of ':', get_title returns t and      *)
(* get_subtitle returns what it returned before the call.                   *)
C28_TitleRoundTrip ==
  [][ (last'.op = "set_title" /\ \A j \in 1..Len(last'.buf) : last'.buf[j] # 58) =>
        /\ get_title(run') = last'.buf
        /\ get_subtitle(run') = get_subtitle(run) ]_vars

(* a title of two bytes was set on a run that has a subtitle *)
C28_Witness ==
  /\ last.op = "set_title"
  /\ last.buf = <<85, 114>>
  /\ get_title(run) = <<85, 114>>
  /\ get_subtitle(run) # None

(* split i of the session controller, counted from 1 *)
Timer(i) == app_splits[i].timer
SplitRunning(sp) == ~not_started(sp) /\ ~sp.completed

(* C22: in the session controller at most one split is running, a started   *)
(* split has all earlier splits started, and a split starts in a step in    *)
(* which the split before it goes from running to completed (the first one  *)
(* when the timer starts).                                                  *)
C22_SlotOrder ==
  /\ [](\A i, j \in DOMAIN app_splits :
          (SplitRunning(Timer(i)) /\ SplitRunning(Timer(j))) => i = j)
  /\ [](\A i \in DOMAIN app_splits :
          (i > 1 /\ ~not_started(Timer(i))) => ~not_started(Timer(i - 1)))
  /\ [][ \A i \in DOMAIN app_splits :
           (i > 1 /\ not_started(Timer(i)) /\ ~not_started(app_splits'[i].timer)) =>
             /\ SplitRunning(Timer(i - 1))
             /\ is_done(app_splits'[i - 1].timer) ]_vars

(* C23: when the S key moves from a running split to the next one, the new  *)
(* split's start mark is the stopwatch's elapsed time at which the running  *)
(* one was stopped, that is the running one's mark plus its duration.       *)
C23_SameReading ==
  [][ \A i \in DOMAIN app_splits :
        (/\ i > 1
         /\ key' = "S"
         /\ SplitRunning(Timer(i - 1))
         /\ is_done(app_splits'[i - 1].timer)
         /\ not_started(Timer(i))
         /\ ~not_started(app_splits'[i].timer)) =>
          app_splits'[i].timer.split_start[1] =
            app_splits'[i - 1].timer.split_start[1] + app_splits'[i - 1].timer.elapsed ]_vars

(* C30: the session controller never panics, and every started split's      *)
(* start mark is at most the stopwatch's elapsed time.                      *)
C30_NoUnderflow ==
  /\ key # "panic"
  /\ \A i \in DOMAIN app_splits :
       ~not_started(Timer(i)) => Timer(i).split_start[1] <= TE

(* a frame drew a running split that started after a pause of the stopwatch *)
C30_Witness ==
  /\ key = "Frame"
  /\ \E i \in DOMAIN app_splits :
       /\ SplitRunning(Timer(i))
       /\ Timer(i).split_start[1] > 0
       /\ Timer(i).split_start[1] < TE
       /\ TE < now

(* C29: the index that a successful add_split returns is the position of    *)
(* the split it appended: get_split_name of it is the name just added.      *)
C29_IndexOfAdded ==
  last.op = "add_split" => get_split_name(run, last.ret) = Some(last.buf)

(* C31: a completed split is started; an unstarted split is not completed   *)
(* and stores a zero duration; so is_done is the completed flag, also as    *)
(* the is_done query returns it.                                            *)
C31_DoneIsCompleted ==
  /\ split.completed => ~not_started(split)
  /\ not_started(split) => (~split.completed /\ split.elapsed = 0)
  /\ is_done(split) <=> split.completed
  /\ sp_op = "is_done" => (sp_ret.flag <=> split.completed)

(* is_done answered true on a completed split that recorded a duration *)
C31_Witness ==
  /\ sp_op = "is_done"
  /\ sp_ret.flag
  /\ split.completed
  /\ split.elapsed > 0

====
